---- MODULE Spec2Model ----
(***************************************************************************)
(* A model of depgraph: the Dataset graph, the planners (is_acyclic,       *)
(* buildnext, buildall), the sequential buildmanager of depgraph.py and    *)
(* the threaded orchestrators of manager.py and executor.py.              *)
(*                                                                         *)
(* Datasets are the numbers 1..NumNodes.  A Python set is iterated in      *)
(* ascending order of these numbers; the graphs range over all labellings, *)
(* so every iteration order of a set occurs for some graph.                *)
(* A file's mtime is a rank 1..: 0 stands for a file that does not exist.  *)
(* Only the order of mtimes is ever read (is_older_than), so after each    *)
(* write the ranks are compressed (Normalize).                             *)
(***************************************************************************)
EXTENDS Integers, Sequences, FiniteSets, TLC

NumNodes == 4
MaxEdges == 4
MaxTime == 2
MaxAttemptsArg == 2

Nodes == 1..NumNodes
NoNode == 0

PARENTMISSING == "PARENTMISSING"
PARENTNEWER == "PARENTNEWER"
MISSING == "MISSING"
NoReason == "None"

VARIABLES
    dsParents,   \* Dataset._parents, per dataset
    dsChildren,  \* Dataset._children, per dataset
    mtime,       \* the file system: os.stat(name).st_mtime, 0 when absent
    call,        \* planner calls: the last call made, <<name, argument>>
    result,      \* planner calls: what the call produced
    target,      \* orchestrators: the target argument
    max_attempts,\* orchestrators: the max_attempts argument
    onfailure,   \* orchestrators: the onfailure argument
    seqPc,       \* buildmanager.executor: where the call is
    noop,        \* buildmanager.executor: noop
    attempts,    \* buildmanager.executor: attempts, 0 for a missing key
    plan,        \* buildmanager.executor: the stages of buildall not yet taken
    finalDue,    \* buildmanager.executor: buildall has yet to look at the target
    nprocs,      \* threaded orchestrators: the nprocs argument
    impl,        \* threaded orchestrators: "manager" or "executor" (the file)
    supPc,       \* supervisor thread: where it is
    submitted,   \* supervisor thread: submitted
    steps,       \* the steps queue
    signals,     \* the signals queue
    mainPc,      \* manager / orchestrator call: where it is
    futs,        \* every future the call has submitted to the pool
    pending,     \* manager / orchestrator call: pending, as indexes of futs
    raisedExc,   \* the exception an orchestrator call ended with
    invoked,     \* history: the datasets ever passed to the delegator
    failed       \* history: the datasets whose delegator call ever raised

graphVars == <<dsParents, dsChildren>>
planVars == <<call, result>>
argVars == <<target, max_attempts, onfailure>>
seqVars == <<seqPc, noop, attempts, plan, finalDue>>
thrVars == <<nprocs, impl, supPc, submitted, steps, signals, mainPc, futs, pending>>
histVars == <<invoked, failed>>

----------------------------------------------------------------------------
(* Strict(e, F) is F(e) with e evaluated once, before F is applied. *)

Strict(e, F(_)) == CHOOSE y \in {F(x) : x \in {e}} : TRUE

(* Sequences used as Python lists *)

InSeq(x, s) == \E i \in 1..Len(s) : s[i] = x

\* the elements of a set of datasets in the order Python iterates them
SetToSeq(S) ==
    [i \in 1..Cardinality(S) |->
        CHOOSE x \in S : Cardinality({y \in S : y < x}) = i - 1]

\* the elements of s at the positions in idx, in order
AtPositions(s, idx) == [k \in 1..Cardinality(idx) |-> s[SetToSeq(idx)[k]]]

\* `for x in s: if x not in out: out.append(x)`
AppendNew(out, s) ==
    out \o AtPositions(s, {i \in 1..Len(s) :
                              /\ ~ InSeq(s[i], out)
                              /\ \A j \in 1..(i - 1) : s[j] # s[i]})

RemoveFirst(s, x) ==
    LET i == CHOOSE k \in 1..Len(s) : s[k] = x /\ \A j \in 1..(k-1) : s[j] # x
    IN SubSeq(s, 1, i-1) \o SubSeq(s, i+1, Len(s))

SeqRange(s) == {s[i] : i \in 1..Len(s)}

----------------------------------------------------------------------------
(* Dataset: the file behind it *)

exists(d) == mtime[d] # 0

is_older_than(d, other) == mtime[d] < mtime[other]

----------------------------------------------------------------------------
(* Dataset.parents(depth), Dataset.children(depth), Dataset.roots():       *)
(* recursive generators, each level with its own `yielded` table.  The     *)
(* result is the list of yielded datasets.  RecErr in the list stands for  *)
(* the RecursionError that ends the generator when the recursion does not  *)
(* bottom out; RecursionLimit is the interpreter's recursion limit.        *)

RecErr == 0
RecursionLimit == NumNodes + 2

\* a walk whose levels keep no `yielded` table
RECURSIVE walkUp_no_yielded(_, _, _, _)
walkUp_no_yielded(rel, self, depth, fuel) ==
    IF fuel = 0 THEN <<RecErr>>
    ELSE
      LET ps == SetToSeq(rel[self])
          step(out, dataset) ==
              IF depth # 0
              THEN Strict(walkUp_no_yielded(rel, dataset, depth - 1, fuel - 1),
                          LAMBDA gps : Append(out, dataset) \o gps)
              ELSE Append(out, dataset)
          RECURSIVE loop(_, _)
          loop(i, out) ==
              IF i > Len(ps) \/ InSeq(RecErr, out) THEN out
              ELSE Strict(step(out, ps[i]), LAMBDA o : loop(i + 1, o))
      IN loop(1, <<>>)

RECURSIVE walkUp(_, _, _, _)
walkUp(rel, self, depth, fuel) ==
    IF fuel = 0 THEN <<RecErr>>
    ELSE
      LET ps == SetToSeq(rel[self])
          step(out, dataset) ==
              LET out1 == IF InSeq(dataset, out) THEN out ELSE Append(out, dataset)
              IN IF depth # 0
                 THEN Strict(walkUp(rel, dataset, depth - 1, fuel - 1),
                             LAMBDA gps : AppendNew(out1, gps))
                 ELSE out1
          RECURSIVE loop(_, _)
          loop(i, out) ==
              IF i > Len(ps) \/ InSeq(RecErr, out) THEN out
              ELSE Strict(step(out, ps[i]), LAMBDA o : loop(i + 1, o))
      IN loop(1, <<>>)

parents(self, depth) == walkUp(dsParents, self, depth, RecursionLimit)

children(self, depth) == walkUp(dsChildren, self, depth, RecursionLimit)

\* a roots whose levels keep no `yielded` table
RECURSIVE rootsRec_no_yielded(_, _)
rootsRec_no_yielded(self, fuel) ==
    IF fuel = 0 THEN <<RecErr>>
    ELSE
      LET ps == SetToSeq(dsParents[self])
          step(out, dataset) ==
              IF dsParents[dataset] = {}
              THEN Append(out, dataset)
              ELSE Strict(rootsRec_no_yielded(dataset, fuel - 1),
                          LAMBDA gps : out \o gps)
          RECURSIVE loop(_, _)
          loop(i, out) ==
              IF i > Len(ps) \/ InSeq(RecErr, out) THEN out
              ELSE Strict(step(out, ps[i]), LAMBDA o : loop(i + 1, o))
      IN loop(1, <<>>)

RECURSIVE rootsRec(_, _)
rootsRec(self, fuel) ==
    IF fuel = 0 THEN <<RecErr>>
    ELSE
      LET ps == SetToSeq(dsParents[self])
          step(out, dataset) ==
              IF dsParents[dataset] = {}
              THEN (IF InSeq(dataset, out) THEN out ELSE Append(out, dataset))
              ELSE Strict(rootsRec(dataset, fuel - 1),
                          LAMBDA gps : AppendNew(out, gps))
          RECURSIVE loop(_, _)
          loop(i, out) ==
              IF i > Len(ps) \/ InSeq(RecErr, out) THEN out
              ELSE Strict(step(out, ps[i]), LAMBDA o : loop(i + 1, o))
      IN loop(1, <<>>)

roots(self) == rootsRec(self, RecursionLimit)

----------------------------------------------------------------------------
(* is_acyclic: depth-first walk over parents(0) with temporary and         *)
(* permanent marks; CircularDependency unwinds the walk.                   *)

\* a visit that never takes a temporary mark back
RECURSIVE visit_keep_temp(_, _, _)
visit_keep_temp(dataset, temp_marks, perm_marks) ==
    IF InSeq(dataset, temp_marks)
    THEN [raised |-> TRUE, temp |-> temp_marks, perm |-> perm_marks]
    ELSE IF InSeq(dataset, perm_marks)
    THEN [raised |-> FALSE, temp |-> temp_marks, perm |-> perm_marks]
    ELSE
      LET ps == SetToSeq(dsParents[dataset])
          RECURSIVE loop(_, _)
          loop(i, st) ==
              IF i > Len(ps) \/ st.raised THEN st
              ELSE Strict(visit_keep_temp(ps[i], st.temp, st.perm),
                          LAMBDA r : loop(i + 1, r))
      IN loop(1, [raised |-> FALSE,
                  temp |-> Append(temp_marks, dataset),
                  perm |-> perm_marks])

RECURSIVE visit(_, _, _)
visit(dataset, temp_marks, perm_marks) ==
    IF InSeq(dataset, temp_marks)
    THEN [raised |-> TRUE, temp |-> temp_marks, perm |-> perm_marks]
    ELSE IF InSeq(dataset, perm_marks)
    THEN [raised |-> FALSE, temp |-> temp_marks, perm |-> perm_marks]
    ELSE
      LET ps == SetToSeq(dsParents[dataset])
          RECURSIVE loop(_, _)
          loop(i, st) ==
              IF i > Len(ps) \/ st.raised THEN st
              ELSE Strict(visit(ps[i], st.temp, st.perm), LAMBDA r : loop(i + 1, r))
          finish(r) ==
              IF r.raised THEN r
              ELSE [raised |-> FALSE,
                    temp |-> RemoveFirst(r.temp, dataset),
                    perm |-> Append(r.perm, dataset)]
      IN Strict(loop(1, [raised |-> FALSE,
                         temp |-> Append(temp_marks, dataset),
                         perm |-> perm_marks]),
                LAMBDA r : finish(r))

is_acyclic(dataset) == ~ visit(dataset, <<>>, <<>>).raised

----------------------------------------------------------------------------
(* Dataset.buildnext(ignore): the lazy frontier.  The result is            *)
(* [raised, out]: the exception that ended the generator ("" for none) and *)
(* the list of (dataset, reason) pairs yielded before it ended.            *)

NoError == ""
CircularDependency == "CircularDependency"
FileNotFoundError == "FileNotFoundError"

\* a needsbuild that does not look for missing parents
bn_needsbuild_no_defer(child) ==
    IF exists(child) /\ \E par \in dsParents[child] : is_older_than(child, par)
    THEN <<TRUE, PARENTNEWER>>
    ELSE IF ~ exists(child)
    THEN <<TRUE, MISSING>>
    ELSE <<FALSE, NoReason>>

bn_needsbuild(child) ==
    IF ~ \A p \in dsParents[child] : exists(p)
    THEN <<FALSE, PARENTMISSING>>
    ELSE IF exists(child) /\ \E par \in dsParents[child] : is_older_than(child, par)
    THEN <<TRUE, PARENTNEWER>>
    ELSE IF ~ exists(child)
    THEN <<TRUE, MISSING>>
    ELSE <<FALSE, NoReason>>

\* one walkbranch(stem, ancestors, branches) run to its end: the pairs it
\* yields and the branches list it leaves
walkbranch(stem, ancestors, branches) ==
    LET cs == SetToSeq(dsChildren[stem])
        step(st, child) ==
            LET nb == bn_needsbuild(child)
            IN IF ~ InSeq(child, ancestors) THEN st
               ELSE IF nb[1]
               THEN [st EXCEPT !.yields = Append(@, <<child, nb[2]>>)]
               ELSE IF nb[2] = PARENTMISSING THEN st
               ELSE [st EXCEPT !.branches =
                        IF InSeq(child, @) THEN @ ELSE Append(@, child)]
        RECURSIVE loop(_, _)
        loop(i, st) ==
            IF i > Len(cs) THEN st
            ELSE Strict(step(st, cs[i]), LAMBDA t : loop(i + 1, t))
    IN loop(1, [yields |-> <<>>, branches |-> branches])

\* a loop that yields every pair of walkbranch, built before or not
bn_take_all(ys, st) ==
    [built |-> st.built \o [k \in 1..Len(ys) |-> ys[k][1]],
     out |-> st.out \o ys]

\* `for dep, reason in walkbranch(...): if dep not in built: ...` over the
\* pairs ys: st is [built, out]
bn_take(ys, st) ==
    LET firsts == {i \in 1..Len(ys) :
                      /\ ~ InSeq(ys[i][1], st.built)
                      /\ \A j \in 1..(i - 1) : ys[j][1] # ys[i][1]}
        new == AtPositions(ys, firsts)
    IN [built |-> st.built \o [k \in 1..Len(new) |-> new[k][1]],
        out |-> st.out \o new]

RECURSIVE bn_loop(_, _, _)
bn_loop(ancestors, branches, st) ==
    IF Len(branches) = 0 THEN st.out
    ELSE Strict(walkbranch(branches[1], ancestors, branches),
                LAMBDA w : Strict(bn_take(w.yields, st),
                                  LAMBDA t : bn_loop(ancestors, Tail(w.branches), t)))

\* a generator that ends quietly on a cyclic graph instead of raising
buildnext_quiet(self, ignore) ==
    IF ~ is_acyclic(self)
    THEN [raised |-> NoError, out |-> <<>>]
    ELSE [raised |-> NoError,
          out |-> Strict(parents(self, -1), LAMBDA anc :
                  Strict(roots(self), LAMBDA rts :
                      bn_loop(anc, rts, [built |-> ignore, out |-> <<>>])))]

buildnext(self, ignore) ==
    IF ~ is_acyclic(self)
    THEN [raised |-> CircularDependency, out |-> <<>>]
    ELSE [raised |-> NoError,
          out |-> Strict(parents(self, -1), LAMBDA anc :
                  Strict(roots(self), LAMBDA rts :
                      bn_loop(anc, rts, [built |-> ignore, out |-> <<>>])))]

----------------------------------------------------------------------------
(* buildall(target): the staged plan.  The generator computes every stage  *)
(* when it is first consumed (ba_groups) and looks at the target only      *)
(* after the consumer has taken the last stage (ba_final).                 *)

\* a staleness test that also takes an ancestor of the same age as newer
ba_needsbuild_same_age(dataset) ==
    IF exists(dataset)
       /\ \E par \in SeqRange(parents(dataset, -1)) :
              ~ exists(par) \/ mtime[dataset] <= mtime[par]
    THEN <<TRUE, PARENTNEWER>>
    ELSE IF ~ exists(dataset)
    THEN <<TRUE, MISSING>>
    ELSE <<FALSE, NoReason>>

ba_needsbuild(dataset) ==
    IF exists(dataset)
       /\ \E par \in SeqRange(parents(dataset, -1)) :
              ~ exists(par) \/ is_older_than(dataset, par)
    THEN <<TRUE, PARENTNEWER>>
    ELSE IF ~ exists(dataset)
    THEN <<TRUE, MISSING>>
    ELSE <<FALSE, NoReason>>

\* a marking that keeps the first index a dataset is reached at
mcb_child_first(st, i, child) ==
    [marks |-> IF st.marks.val[child] = -1
               THEN [keys |-> Append(st.marks.keys, child),
                     val |-> [st.marks.val EXCEPT ![child] = i]]
               ELSE st.marks,
     queue |-> Append(st.queue, <<i + 1, child>>)]

\* marks: [keys |-> datasets in the order they were first marked,
\*         val |-> dataset -> stage index (-1: not marked)]
\* st is [marks, queue]; one child of dep, popped at index i, is handled
mcb_child(st, i, child) ==
    [marks |-> IF i > st.marks.val[child]
               THEN [keys |-> IF InSeq(child, st.marks.keys) THEN st.marks.keys
                              ELSE Append(st.marks.keys, child),
                     val |-> [st.marks.val EXCEPT ![child] = i]]
               ELSE st.marks,
     queue |-> Append(st.queue, <<i + 1, child>>)]

RECURSIVE mcb_loop(_, _)
mcb_loop(st, inparents) ==
    IF Len(st.queue) = 0 THEN st.marks
    ELSE
      LET i == st.queue[1][1]
          cs == SelectSeq(SetToSeq(dsChildren[st.queue[1][2]]),
                          LAMBDA d : d \in inparents)
          RECURSIVE loop(_, _)
          loop(k, t) ==
              IF k > Len(cs) THEN t
              ELSE Strict(mcb_child(t, i, cs[k]), LAMBDA u : loop(k + 1, u))
      IN Strict(loop(1, [marks |-> st.marks, queue |-> Tail(st.queue)]),
                LAMBDA u : mcb_loop(u, inparents))

mark_children_breadthfirst(rootlist, inparents) ==
    mcb_loop([marks |-> [keys |-> <<>>, val |-> [n \in Nodes |-> -1]],
              queue |-> [k \in 1..Len(rootlist) |-> <<0, rootlist[k]>>]],
             inparents)

\* the groups list built from the marks
ba_grouping(marks) ==
    LET step(groups, dep) ==
            LET i == marks.val[dep]
                nb == ba_needsbuild(dep)
                grown == IF Len(groups) > i THEN groups
                         ELSE groups \o [j \in 1..(i + 1 - Len(groups)) |-> <<>>]
            IN IF nb[1]
               THEN [grown EXCEPT ![i + 1] = Append(@, <<dep, nb[2]>>)]
               ELSE groups
        RECURSIVE loop(_, _)
        loop(k, groups) ==
            IF k > Len(marks.keys) THEN groups
            ELSE Strict(step(groups, marks.keys[k]), LAMBDA g : loop(k + 1, g))
    IN loop(1, <<>>)

ba_groups(tgt) ==
    IF ~ is_acyclic(tgt)
    THEN [raised |-> CircularDependency, out |-> <<>>]
    ELSE [raised |-> NoError,
          out |-> Strict(roots(tgt), LAMBDA rts :
                  Strict(SeqRange(parents(tgt, -1)), LAMBDA anc :
                  Strict(mark_children_breadthfirst(rts, anc),
                         LAMBDA marks : ba_grouping(marks))))]

ba_final(tgt) ==
    IF ba_needsbuild(tgt)[1] THEN << <<  <<tgt, MISSING>> >> >> ELSE <<>>

\* buildall consumed to its end with the file system left alone
buildall(tgt) ==
    Strict(ba_groups(tgt), LAMBDA g :
        IF g.raised # NoError THEN g
        ELSE [raised |-> NoError, out |-> g.out \o ba_final(tgt)])

----------------------------------------------------------------------------
(* The graphs and file systems the checks range over *)

EdgeCount(ps) == Cardinality({e \in Nodes \X Nodes : e[1] \in ps[e[2]]})

Graphs == {ps \in [Nodes -> SUBSET Nodes] : EdgeCount(ps) <= MaxEdges}

ChildrenOf(ps) == [n \in Nodes |-> {c \in Nodes : n \in ps[c]}]

FileSystems == [Nodes -> 0..MaxTime]

\* reachability over parent edges, computed apart from the program's walks
RECURSIVE Reach(_, _)
Reach(ps, S) ==
    LET T == S \cup UNION {ps[n] : n \in S}
    IN IF T = S THEN S ELSE Reach(ps, T)

Ancestors(n) == Reach(dsParents, dsParents[n])

OnCycle(n) == n \in Ancestors(n)

CycleAbove(n) == \E m \in Ancestors(n) \cup {n} : OnCycle(m)

\* mtimes are kept as ranks: the n-th smallest mtime is n
Normalize(f) ==
    [n \in DOMAIN f |->
        IF f[n] = 0 THEN 0
        ELSE Cardinality({f[m] : m \in DOMAIN f} \cap (1..f[n]))]

NormalFileSystems == {f \in FileSystems : f = Normalize(f)}

\* the delegator writes the file of d: its mtime is the current time, later
\* than every mtime on disk
makefile(d) == Normalize([mtime EXCEPT ![d] = Cardinality(DOMAIN mtime) + MaxTime + 1])

----------------------------------------------------------------------------
(* Planner calls on an arbitrary graph and file system *)

SeqIdle ==
    /\ seqPc = "idle" /\ noop = FALSE /\ attempts = [n \in Nodes |-> 0]
    /\ plan = <<>> /\ finalDue = FALSE

ThrIdle ==
    /\ nprocs = 1 /\ impl = "manager"
    /\ supPc = "idle" /\ submitted = {} /\ steps = <<>> /\ signals = <<>>
    /\ mainPc = "idle" /\ futs = <<>> /\ pending = <<>>

InitPlan ==
    /\ dsParents \in Graphs
    /\ dsChildren = ChildrenOf(dsParents)
    /\ mtime \in FileSystems
    /\ call = <<"none", NoNode>>
    /\ result = [raised |-> NoError, out |-> <<>>]
    /\ target = NoNode /\ max_attempts = 1 /\ onfailure = "raise"
    /\ SeqIdle
    /\ ThrIdle
    /\ raisedExc = NoError /\ invoked = {} /\ failed = {}

CallBuildnext(n) ==
    /\ call[1] = "none"
    /\ call' = <<"buildnext", n>>
    /\ result' = buildnext(n, <<>>)
    /\ UNCHANGED <<graphVars, mtime, argVars, seqVars, thrVars, raisedExc, histVars>>

CallBuildall(n) ==
    /\ call[1] = "none"
    /\ call' = <<"buildall", n>>
    /\ result' = buildall(n)
    /\ UNCHANGED <<graphVars, mtime, argVars, seqVars, thrVars, raisedExc, histVars>>

NextPlan ==
    \/ \E n \in Nodes : CallBuildnext(n)
    \/ \E n \in Nodes : CallBuildall(n)

vars == <<dsParents, dsChildren, mtime, call, result, target, max_attempts,
          onfailure, seqPc, noop, attempts, plan, finalDue, nprocs, impl,
          supPc, submitted, steps, signals, mainPc, futs, pending, raisedExc,
          invoked, failed>>

SpecPlan == InitPlan /\ [][NextPlan]_vars

\* C10: buildall(target) and buildnext(target) on a graph with a cycle above
\* the target end with CircularDependency and have yielded nothing.
C10_CycleRaisesBeforeYield ==
    (call[1] \in {"buildnext", "buildall"} /\ CycleAbove(call[2]))
        => (result.raised = CircularDependency /\ result.out = <<>>)

C10_Witness ==
    /\ call[1] = "buildall"
    /\ CycleAbove(call[2])
    /\ ~ OnCycle(call[2])
    /\ result.raised = CircularDependency

----------------------------------------------------------------------------
(* The orchestrators are called on the last dataset; the graphs they are   *)
(* called on have every edge in the part of the graph above the target.    *)
(* On a graph with a cycle no file is ever read, so none is there; nor is   *)
(* the file of a dataset that is not above the target.                     *)

ConeOf(ps, t) == Reach(ps, ps[t]) \cup {t}

OrchGraphs == {ps \in Graphs : \A n \in Nodes : ps[n] # {} => n \in ConeOf(ps, NumNodes)}

Policies == {"raise", "print", "ignore"}

InitOrch ==
    /\ dsParents \in OrchGraphs
    /\ dsChildren = ChildrenOf(dsParents)
    /\ target = NumNodes
    /\ mtime \in NormalFileSystems
    /\ CycleAbove(target) => mtime = [n \in Nodes |-> 0]
    /\ \A n \in Nodes \ ConeOf(dsParents, target) : mtime[n] = 0
    /\ max_attempts \in 0..MaxAttemptsArg
    /\ onfailure \in Policies
    /\ call = <<"none", NoNode>>
    /\ result = [raised |-> NoError, out |-> <<>>]
    /\ raisedExc = NoError /\ invoked = {} /\ failed = {}

----------------------------------------------------------------------------
(* buildmanager(delegator)(target, max_attempts, onfailure): the           *)
(* sequential orchestrator of depgraph.py                                  *)

StepFailure == "StepFailure"

InitSeq ==
    /\ InitOrch
    /\ ThrIdle
    /\ seqPc = "loop" /\ noop = FALSE /\ attempts = [n \in Nodes |-> 0]
    /\ plan = <<>> /\ finalDue = FALSE

\* `while not noop: noop = True`, and the first next() of buildall(target)
SeqLoop ==
    /\ seqPc = "loop"
    /\ IF noop
       THEN /\ seqPc' = "returned"
            /\ UNCHANGED <<noop, plan, finalDue, raisedExc>>
       ELSE \E g \in {ba_groups(target)} :
               /\ noop' = TRUE
               /\ IF g.raised # NoError
                  THEN /\ seqPc' = "raised"
                       /\ raisedExc' = g.raised
                       /\ UNCHANGED <<plan, finalDue>>
                  ELSE /\ seqPc' = "stages"
                       /\ plan' = g.out
                       /\ finalDue' = TRUE
                       /\ UNCHANGED raisedExc
    /\ UNCHANGED <<graphVars, mtime, planVars, argVars, attempts, histVars, thrVars>>

\* the end of a stage: the next stage, the target's stage, or the end of
\* the for loop over buildall(target)
SeqStage ==
    /\ seqPc = "stages"
    /\ \/ /\ plan # <<>> /\ Head(plan) = <<>>
          /\ plan' = Tail(plan)
          /\ UNCHANGED <<seqPc, finalDue>>
       \/ /\ plan = <<>> /\ finalDue
          /\ plan' = ba_final(target)
          /\ finalDue' = FALSE
          /\ UNCHANGED seqPc
       \/ /\ plan = <<>> /\ ~ finalDue
          /\ seqPc' = "loop"
          /\ UNCHANGED <<plan, finalDue>>
    /\ UNCHANGED <<graphVars, mtime, planVars, argVars, noop, attempts,
                   raisedExc, histVars, thrVars>>

SeqItemDue == seqPc = "stages" /\ plan # <<>> /\ Head(plan) # <<>>

SeqItem == Head(Head(plan))

SeqDropItem == [plan EXCEPT ![1] = Tail(@)]

\* `if attempts.get(dep, 0) < max_attempts` is false
SeqSkip ==
    /\ SeqItemDue
    /\ ~ (attempts[SeqItem[1]] < max_attempts)
    /\ plan' = SeqDropItem
    /\ UNCHANGED <<graphVars, mtime, planVars, argVars, seqPc, noop, attempts,
                   finalDue, raisedExc, histVars, thrVars>>

\* the delegator builds dep
SeqBuildOk ==
    /\ SeqItemDue
    /\ attempts[SeqItem[1]] < max_attempts
    /\ noop' = FALSE
    /\ mtime' = makefile(SeqItem[1])
    /\ invoked' = invoked \cup {SeqItem[1]}
    /\ plan' = SeqDropItem
    /\ UNCHANGED <<graphVars, planVars, argVars, seqPc, attempts, finalDue,
                   raisedExc, failed, thrVars>>

\* the delegator raises
SeqBuildFail ==
    /\ SeqItemDue
    /\ attempts[SeqItem[1]] < max_attempts
    /\ noop' = FALSE
    /\ invoked' = invoked \cup {SeqItem[1]}
    /\ failed' = failed \cup {SeqItem[1]}
    /\ IF onfailure = "raise"
       THEN /\ seqPc' = "raised"
            /\ raisedExc' = StepFailure
            /\ UNCHANGED <<attempts, plan>>
       ELSE /\ attempts' = [attempts EXCEPT ![SeqItem[1]] = @ + 1]
            /\ plan' = SeqDropItem
            /\ UNCHANGED <<seqPc, raisedExc>>
    /\ UNCHANGED <<graphVars, mtime, planVars, argVars, finalDue, thrVars>>

NextSeq == SeqLoop \/ SeqStage \/ SeqSkip \/ SeqBuildOk \/ SeqBuildFail

SpecSeq == InitSeq /\ [][NextSeq]_vars

\* termination is explored on graphs of at most LiveEdges edges
LiveEdges == 2

InitSeqLive == InitSeq /\ EdgeCount(dsParents) <= LiveEdges

\* the call is one thread: it keeps running until it returns or raises
FairSeq == InitSeqLive /\ [][NextSeq]_vars /\ WF_vars(NextSeq)

SeqEnded == seqPc \in {"returned", "raised"}

\* C8: the sequential buildmanager terminates on every acyclic graph and
\* file state, missing root files included, under print or ignore.
C8_SeqTerminates ==
    (~ CycleAbove(target) /\ onfailure \in {"print", "ignore"}) => <>SeqEnded

----------------------------------------------------------------------------
(* execute(delegator)(target, max_attempts, onfailure, nprocs): the        *)
(* threaded orchestrators of manager.py and executor.py.                   *)
(*                                                                         *)
(* A poll that finds nothing (steps.get timing out, a sweep that finds     *)
(* nothing new and sleeps) changes nothing and is no step: a state with no *)
(* step left is one the threads stay in forever.  One sweep of the         *)
(* supervisor and one turn of the dispatch loop are one step each.         *)

BackpressureFactor == 5
ManagerPoolSize == 2
MaxNprocs == 1
\* calls with max_attempts > 1 are explored on graphs of at most RetryEdges edges
RetryEdges == 2

Impls == {"manager", "executor"}

\* the (None, None) the supervisor puts last
Sentinel == <<NoNode, NoReason>>

InitThr ==
    /\ InitOrch
    /\ max_attempts > 1 => EdgeCount(dsParents) <= RetryEdges
    /\ SeqIdle
    /\ nprocs \in 1..MaxNprocs
    /\ impl \in Impls
    /\ supPc = "loop" /\ submitted = {} /\ steps = <<>> /\ signals = <<>>
    /\ mainPc = "loop" /\ futs = <<>> /\ pending = <<>>

\* ThreadPoolExecutor(max_workers=...)
PoolSize == IF impl = "manager" THEN ManagerPoolSize ELSE nprocs

(* supervisor(target, steps, signals) *)

\* a sweep that enqueues every pair of buildnext, submitted before or not
SupSweep_resubmit ==
    /\ supPc = "loop"
    /\ IF signals # <<>>
       THEN /\ signals' = Tail(signals)
            /\ supPc' = IF Head(signals) = "quit" THEN "post" ELSE "loop"
            /\ UNCHANGED <<submitted, steps>>
       ELSE \E r \in {buildnext(target, <<>>)} :
            \E new \in {r.out} :
               /\ UNCHANGED signals
               /\ IF r.raised # NoError
                  THEN /\ supPc' = "dead"
                       /\ UNCHANGED <<submitted, steps>>
                  ELSE /\ new # <<>> \/ r.out = <<>>
                       /\ steps' = steps \o new
                       /\ submitted' = submitted \cup {new[k][1] : k \in 1..Len(new)}
                       /\ supPc' = IF r.out = <<>> THEN "post" ELSE "loop"
    /\ UNCHANGED <<graphVars, mtime, planVars, argVars, seqVars, nprocs, impl,
                   mainPc, futs, pending, raisedExc, histVars>>

\* one turn of `while True`: the signal check and the sweep over buildnext
SupSweep ==
    /\ supPc = "loop"
    /\ IF signals # <<>>
       THEN /\ signals' = Tail(signals)
            /\ supPc' = IF Head(signals) = "quit" THEN "post" ELSE "loop"
            /\ UNCHANGED <<submitted, steps>>
       ELSE \E r \in {buildnext(target, <<>>)} :
            \E new \in {SelectSeq(r.out, LAMBDA st : st[1] \notin submitted)} :
               /\ UNCHANGED signals
               /\ IF r.raised # NoError
                  THEN /\ supPc' = "dead"
                       /\ UNCHANGED <<submitted, steps>>
                  ELSE /\ new # <<>> \/ r.out = <<>>
                       /\ steps' = steps \o new
                       /\ submitted' = submitted \cup {new[k][1] : k \in 1..Len(new)}
                       /\ supPc' = IF r.out = <<>> THEN "post" ELSE "loop"
    /\ UNCHANGED <<graphVars, mtime, planVars, argVars, seqVars, nprocs, impl,
                   mainPc, futs, pending, raisedExc, histVars>>

\* what the supervisor does with the target after its loop: "missing",
\* "newer", "current", or "raises" when is_older_than stats a missing parent
sup_final ==
    LET ps == SetToSeq(dsParents[target])
        decisive == {i \in 1..Len(ps) : ~ exists(ps[i]) \/ is_older_than(target, ps[i])}
        first == CHOOSE i \in decisive : \A j \in decisive : i <= j
    IN IF ~ exists(target) THEN "missing"
       ELSE IF decisive = {} THEN "current"
       ELSE IF ~ exists(ps[first]) THEN "raises"
       ELSE "newer"

SupPost ==
    /\ supPc = "post"
    /\ \E f \in {sup_final} :
         IF f = "raises"
         THEN /\ supPc' = "dead"
              /\ UNCHANGED steps
         ELSE /\ supPc' = "done"
              /\ steps' = steps
                   \o (IF f = "missing" THEN << <<target, MISSING>> >>
                       ELSE IF f = "newer" THEN << <<target, PARENTNEWER>> >>
                       ELSE <<>>)
                   \o <<Sentinel>>
    /\ UNCHANGED <<graphVars, mtime, planVars, argVars, seqVars, nprocs, impl,
                   submitted, signals, mainPc, futs, pending, raisedExc, histVars>>

(* the dispatch loop of manager / orchestrator *)

NewFuture(dep, reason) ==
    [dep |-> dep, reason |-> reason, st |-> "queued", attempts |-> 0,
     success |-> "False", exc |-> FALSE, last |-> "none"]

\* fut.result() == False: the worker of manager.py returns the delegator's
\* value or False, the worker of executor.py a Try (taken as never equal to
\* False)
ResultIsFalse(f) == impl = "manager" /\ f.success = "False"

\* one turn of the dispatch loop
MainTurn ==
    /\ mainPc = "loop"
    /\ \E completed \in {SelectSeq(pending, LAMBDA i : futs[i].st = "done")} :
       \E rest \in {SelectSeq(pending, LAMBDA i : futs[i].st # "done")} :
       \E stop \in {{k \in 1..Len(completed) :
                        futs[completed[k]].exc \/ ResultIsFalse(futs[completed[k]])}} :
         /\ completed # <<>> \/ (Len(rest) <= BackpressureFactor * nprocs /\ steps # <<>>)
         /\ pending' = IF stop = {} /\ Len(rest) <= BackpressureFactor * nprocs
                          /\ steps # <<>> /\ Head(steps) # Sentinel
                       THEN Append(rest, Len(futs) + 1)
                       ELSE rest
         /\ IF stop # {}
            THEN \E k \in stop :
                   /\ \A j \in stop : k <= j
                   /\ IF futs[completed[k]].exc
                      THEN mainPc' = "unwind" /\ raisedExc' = StepFailure
                      ELSE mainPc' = "wait" /\ UNCHANGED raisedExc
                   /\ UNCHANGED <<steps, futs>>
            ELSE IF Len(rest) > BackpressureFactor * nprocs \/ steps = <<>>
            THEN UNCHANGED <<mainPc, steps, futs, raisedExc>>
            ELSE /\ steps' = Tail(steps)
                 /\ UNCHANGED raisedExc
                 /\ IF Head(steps) = Sentinel
                    THEN mainPc' = "wait" /\ UNCHANGED futs
                    ELSE /\ futs' = Append(futs, NewFuture(Head(steps)[1], Head(steps)[2]))
                         /\ UNCHANGED mainPc
    /\ UNCHANGED <<graphVars, mtime, planVars, argVars, seqVars, nprocs, impl,
                   supPc, submitted, signals, histVars>>

AllFuturesDone == \A i \in 1..Len(futs) : futs[i].st = "done"

\* wait(pending), the end of the `with` block, signals.put("quit")
MainWait ==
    /\ mainPc = "wait"
    /\ AllFuturesDone
    /\ signals' = Append(signals, "quit")
    /\ mainPc' = "join"
    /\ UNCHANGED <<graphVars, mtime, planVars, argVars, seqVars, nprocs, impl,
                   supPc, submitted, steps, futs, pending, raisedExc, histVars>>

\* th_supervisor.join() and the return
MainJoin ==
    /\ mainPc = "join"
    /\ supPc \in {"done", "dead"}
    /\ mainPc' = "returned"
    /\ UNCHANGED <<graphVars, mtime, planVars, argVars, seqVars, nprocs, impl,
                   supPc, submitted, steps, signals, futs, pending, raisedExc,
                   histVars>>

\* an exception that leaves the call without waiting for the pool
MainUnwind_no_wait ==
    /\ mainPc = "unwind"
    /\ mainPc' = "raised"
    /\ UNCHANGED <<graphVars, mtime, planVars, argVars, seqVars, nprocs, impl,
                   supPc, submitted, steps, signals, futs, pending, raisedExc,
                   histVars>>

\* an exception leaves the `with` block, whose exit waits for the pool, and
\* then the call
MainUnwind ==
    /\ mainPc = "unwind"
    /\ AllFuturesDone
    /\ mainPc' = "raised"
    /\ UNCHANGED <<graphVars, mtime, planVars, argVars, seqVars, nprocs, impl,
                   supPc, submitted, steps, signals, futs, pending, raisedExc,
                   histVars>>

(* the pool and worker(fn, target, reason, ehandler, max_attempts) *)

Running == {i \in 1..Len(futs) : futs[i].st = "running"}

\* manager.py: `while attempts < max_attempts` is false from the start
ManagerNoAttempt == impl = "manager" /\ ~ (0 < max_attempts)

\* a pool thread takes the oldest queued work item
WorkerStart(i) ==
    /\ i \in 1..Len(futs)
    /\ futs[i].st = "queued"
    /\ \A j \in 1..(i - 1) : futs[j].st # "queued"
    /\ Cardinality(Running) < PoolSize
    /\ futs' = [futs EXCEPT ![i].st = IF ManagerNoAttempt THEN "done" ELSE "running"]
    /\ UNCHANGED <<graphVars, mtime, planVars, argVars, seqVars, nprocs, impl,
                   supPc, submitted, steps, signals, mainPc, pending, raisedExc,
                   histVars>>

\* whether the worker calls the delegator again after its n-th call, which
\* succeeded (ok) or raised with the handler returning.  manager.py loops
\* `while attempts < max_attempts`; executor.py evaluates Try(fn, target,
\* reason), which calls fn, and recurs unless it succeeded or max_attempts <= 1
worker_again(n, ok) ==
    IF impl = "manager"
    THEN n < max_attempts
    ELSE ~ (ok \/ max_attempts - (n - 1) <= 1)

\* the delegator builds the dataset and returns value ("False" for a value
\* equal to False, such as 0)
WorkerInvokeOk(i, value) ==
    /\ i \in Running
    /\ mtime' = makefile(futs[i].dep)
    /\ invoked' = invoked \cup {futs[i].dep}
    /\ futs' = [futs EXCEPT ![i].attempts = @ + 1,
                            ![i].success = IF impl = "manager" THEN value ELSE "other",
                            ![i].last = "ok",
                            ![i].st = IF worker_again(futs[i].attempts + 1, TRUE)
                                      THEN "running" ELSE "done"]
    /\ UNCHANGED <<graphVars, planVars, argVars, seqVars, nprocs, impl,
                   supPc, submitted, steps, signals, mainPc, pending, raisedExc,
                   failed>>

\* the delegator raises, and the handler raises again or returns
WorkerInvokeFail(i) ==
    /\ i \in Running
    /\ invoked' = invoked \cup {futs[i].dep}
    /\ failed' = failed \cup {futs[i].dep}
    /\ futs' = [futs EXCEPT ![i].attempts = @ + 1,
                            ![i].last = "raised",
                            ![i].exc = (onfailure = "raise"),
                            ![i].st = IF onfailure # "raise"
                                         /\ worker_again(futs[i].attempts + 1, FALSE)
                                      THEN "running" ELSE "done"]
    /\ UNCHANGED <<graphVars, mtime, planVars, argVars, seqVars, nprocs, impl,
                   supPc, submitted, steps, signals, mainPc, pending, raisedExc>>

ReturnValues == {"False", "other"}

FutIds == 1..(NumNodes + 1)

NextThr ==
    \/ SupSweep
    \/ SupPost
    \/ MainTurn
    \/ MainWait
    \/ MainJoin
    \/ MainUnwind
    \/ \E i \in FutIds : WorkerStart(i)
    \/ \E i \in FutIds : \E v \in ReturnValues : WorkerInvokeOk(i, v)
    \/ \E i \in FutIds : WorkerInvokeFail(i)

SpecThr == InitThr /\ [][NextThr]_vars

ThrEnded == mainPc \in {"returned", "raised"}

----------------------------------------------------------------------------
(* Properties of the threaded orchestrators.                               *)

Acyclic == ~ CycleAbove(target)

\* every parentless node above the target has its file
RootsExist == \A r \in ConeOf(dsParents, target) : dsParents[r] = {} => exists(r)

\* d exists and is not older than any of its direct parents
Fresh(d) == exists(d) /\ \A q \in dsParents[d] : exists(q) => ~ is_older_than(d, q)

\* d is missing, or older than a direct parent
NeedsBuild(d) == ~ exists(d) \/ \E q \in dsParents[d] : exists(q) /\ is_older_than(d, q)

\* t and every ancestor of t exist, none older than a direct parent
UpToDateAt(t) ==
    \A n \in ConeOf(dsParents, t) :
        exists(n) /\ \A q \in dsParents[n] : exists(q) /\ ~ is_older_than(n, q)

\* the target and every ancestor exist, none older than a direct parent
UpToDate == UpToDateAt(target)

\* the datasets a step puts on the steps queue
Enqueued ==
    IF Len(steps') > Len(steps)
    THEN {steps'[k][1] : k \in (Len(steps) + 1)..Len(steps')} \ {NoNode}
    ELSE {}

\* the call has not ended and no thread can take a step: it waits forever
Hung == ~ ThrEnded /\ ~ ENABLED NextThr

\* C1: the supervisor enqueues a step for a node (the target's final step
\* included) only when, at that sweep, every direct parent of the node exists
\* and is not older than any of its own direct parents.
C1_EnqueuedAfterParentsFresh ==
    [][Acyclic => \A n \in Enqueued : \A q \in dsParents[n] : Fresh(q)]_vars

\* C2: on an acyclic graph whose root files exist, with max_attempts >= 1 and
\* a delegator that never fails, the threaded call returns, and on return the
\* target and all its ancestors exist and none is older than a direct parent.
C2_SucceedingBuildCompletes ==
    (Acyclic /\ RootsExist /\ max_attempts >= 1 /\ failed = {})
        => (~ Hung /\ (mainPc = "returned" => UpToDate))

\* C3: on an acyclic graph, under print or ignore, the threaded call always
\* ends: it never reaches a state where it waits forever.
C3_ThreadedCallEnds ==
    (Acyclic /\ onfailure \in {"print", "ignore"}) => ~ Hung

\* C4: under raise (and max_attempts >= 1), once a delegator invocation has
\* failed the threaded call does not return normally.
C4_RaiseNeverReturnsNormally ==
    (onfailure = "raise" /\ max_attempts >= 1 /\ failed # {}) => mainPc # "returned"

\* the nodes whose step failed on all of its attempts (their file was never
\* made), and everything below them
FailedBranches ==
    LET X == {n \in failed : ~ exists(n)}
    IN X \cup Reach(dsChildren, UNION {dsChildren[n] : n \in X})

\* C5: under print or ignore, when the call has returned, every ancestor of
\* the target that is missing or stale and is neither a node whose step failed
\* on all attempts nor below one has been passed to the delegator.  (Stated
\* for graphs whose root files exist.)
C5_UnrelatedBranchesStillBuilt ==
    (mainPc = "returned" /\ onfailure \in {"print", "ignore"} /\ Acyclic
        /\ RootsExist /\ max_attempts >= 1)
        => \A y \in Ancestors(target) \ FailedBranches :
               NeedsBuild(y) => y \in invoked

\* C6: with max_attempts = 0 the threaded orchestrators never invoke the
\* delegator.
C6_ZeroAttemptsNeverInvokes ==
    max_attempts = 0 => invoked = {}

\* C7: for one submitted step, under print or ignore, the delegator is
\* invoked again only after its previous invocation for the step failed, and
\* never more than max_attempts times in all.
C7_RetryDiscipline ==
    [][(onfailure \in {"print", "ignore"}) =>
         (\A i \in 1..Len(futs) :
            (futs'[i].attempts # futs[i].attempts) =>
                ((futs[i].attempts >= 1 => futs[i].last = "raised")
                    /\ futs'[i].attempts <= max_attempts))]_vars

\* C9: when there is a cycle above the target, the threaded call ends with
\* CircularDependency, never waits forever, and never invokes the delegator.
C9_CycleEndsCallWithError ==
    CycleAbove(target) =>
        /\ invoked = {}
        /\ ~ Hung
        /\ ThrEnded => (mainPc = "raised" /\ raisedExc = CircularDependency)

----------------------------------------------------------------------------
(* Properties of the planners, on the calls of SpecPlan.                   *)

CalledBuildall == call[1] = "buildall"

CalledBuildnext == call[1] = "buildnext"

\* the stages buildall yielded, and the pairs of stage k
Stages == result.out

StagePairs(k) == {Stages[k][i] : i \in 1..Len(Stages[k])}

StageNodes(k) == {pr[1] : pr \in StagePairs(k)}

AllStagePairs == UNION {StagePairs(k) : k \in 1..Len(Stages)}

\* some dataset at or above t has no file and no parents
UnsatisfiableAt(t) ==
    \E d \in ConeOf(dsParents, t) : ~ exists(d) /\ dsParents[d] = {}

\* d has a file that is older than the file of a direct parent
OlderThanAParent(d) ==
    exists(d) /\ \E q \in dsParents[d] : exists(q) /\ is_older_than(d, q)

\* C11: when the target or one of its ancestors has no file and no parents,
\* buildall(target) fails at once with an error and yields no stage.
C11_MissingRootFailsBuildall ==
    (CalledBuildall /\ ~ CycleAbove(call[2]) /\ UnsatisfiableAt(call[2]))
        => (result.raised # NoError /\ result.out = <<>>)

\* C12: in the stages buildall yields on an acyclic graph, an ancestor is in
\* a strictly earlier stage than any of its descendants, and the target, when
\* yielded, is in the last stage.
C12_StagesRespectAncestry ==
    (CalledBuildall /\ ~ CycleAbove(call[2])) =>
        /\ \A i, j \in 1..Len(Stages) :
             \A p \in StageNodes(i) : \A c \in StageNodes(j) :
                p \in Ancestors(c) => i < j
        /\ \A k \in 1..Len(Stages) : call[2] \in StageNodes(k) => k = Len(Stages)

C12_Witness ==
    /\ CalledBuildall /\ ~ CycleAbove(call[2])
    /\ \E i, j \in 1..Len(Stages) :
         \E p \in StageNodes(i) : \E c \in StageNodes(j) :
            /\ p \in dsParents[c] /\ dsParents[p] # {} /\ c # call[2]
            /\ \E q \in dsParents[c] : dsParents[q] = {}

\* C14: on an acyclic graph buildall yields a non-root ancestor, or the
\* target, exactly when it has no file (tagged MISSING) or has a file older
\* than a direct parent's (tagged PARENTNEWER).
C14_BuildallSelection ==
    (CalledBuildall /\ ~ CycleAbove(call[2])) =>
        /\ \A pr \in AllStagePairs :
             /\ pr[2] = MISSING => ~ exists(pr[1])
             /\ pr[2] = PARENTNEWER => OlderThanAParent(pr[1])
             /\ pr[2] \in {MISSING, PARENTNEWER}
        /\ \A d \in ConeOf(dsParents, call[2]) :
             (dsParents[d] # {} \/ d = call[2]) =>
                ((\E pr \in AllStagePairs : pr[1] = d)
                    <=> (~ exists(d) \/ OlderThanAParent(d)))

\* C15: on an acyclic graph where the target and all its ancestors exist and
\* none is older than a direct parent, buildnext and buildall yield nothing.
C15_UpToDateYieldsNothing ==
    (call[1] \in {"buildnext", "buildall"} /\ ~ CycleAbove(call[2])
        /\ UpToDateAt(call[2]))
        => (result.raised = NoError /\ result.out = <<>>)

C15_Witness ==
    /\ CalledBuildall /\ ~ CycleAbove(call[2]) /\ UpToDateAt(call[2])
    /\ \E d \in dsParents[call[2]] : dsParents[d] # {} /\ mtime[d] = mtime[call[2]]
    /\ result.out = <<>>

\* C16: every pair (d, r) buildnext(target) yields has d a proper ancestor of
\* the target with all its direct parents on disk, r = MISSING exactly when d
\* has no file and r = PARENTNEWER exactly when d has a file older than a
\* direct parent's.
C16_BuildnextPairs ==
    CalledBuildnext =>
        \A k \in 1..Len(result.out) :
            LET d == result.out[k][1]
                r == result.out[k][2]
            IN /\ d \in Ancestors(call[2]) /\ d # call[2]
               /\ \A q \in dsParents[d] : exists(q)
               /\ r = MISSING <=> ~ exists(d)
               /\ r = PARENTNEWER <=> OlderThanAParent(d)

C16_Witness ==
    /\ CalledBuildnext
    /\ \E k \in 1..Len(result.out) : result.out[k][2] = MISSING
    /\ \E d \in Ancestors(call[2]) :
          /\ \E q \in dsParents[d] : ~ exists(q)
          /\ \A k \in 1..Len(result.out) : result.out[k][1] # d

\* C13: one buildall plan suffices.  On an acyclic graph whose root files
\* exist, when buildmanager has built every dataset of every stage of one
\* buildall(target) iteration, none failing, the target and all its ancestors
\* exist and none is older than a direct parent.
C13_OnePlanSuffices ==
    (~ CycleAbove(target) /\ RootsExist /\ max_attempts >= 1 /\ failed = {}
        /\ seqPc = "loop" /\ invoked # {})
        => UpToDate

----------------------------------------------------------------------------
(* The fixture graph of the tests (SetterUpper.setUp):                     *)
(*     raw0, raw1 -> da0;  raw2 -> da1;  da0, da1 -> db0;                  *)
(*     da1, raw3 -> db1;   db0, db1 -> dc0;  db1 -> dc1;  db1 -> dc2       *)
(* The datasets are numbered in the order setUp creates them.              *)

raw0 == 1
raw1 == 2
raw2 == 3
raw3 == 4
da0 == 5
da1 == 6
db0 == 7
db1 == 8
dc0 == 9
dc1 == 10
dc2 == 11

FixtureNodes == raw0..dc2

FixtureParents ==
    [n \in FixtureNodes |->
        CASE n = da0 -> {raw0, raw1}
          [] n = da1 -> {raw2}
          [] n = db0 -> {da0, da1}
          [] n = db1 -> {da1, raw3}
          [] n = dc0 -> {db0, db1}
          [] n = dc1 -> {db1}
          [] n = dc2 -> {db1}
          [] OTHER -> {}]

FixtureChildren == [n \in FixtureNodes |-> {c \in FixtureNodes : n \in FixtureParents[c]}]

\* the raw files, da1 and db1 are on disk, da0 and db0 are not
FixtureFiles ==
    {f \in [FixtureNodes -> 0..MaxTime] :
        /\ \A d \in {raw0, raw1, raw2, raw3, da1, db1} : f[d] # 0
        /\ f[da0] = 0 /\ f[db0] = 0}

OnFixture ==
    /\ dsParents = FixtureParents
    /\ mtime \in FixtureFiles

InitFixture ==
    /\ dsParents = FixtureParents
    /\ dsChildren = FixtureChildren
    /\ mtime \in FixtureFiles
    /\ call = <<"none", NoNode>>
    /\ result = [raised |-> NoError, out |-> <<>>]
    /\ target = NoNode /\ max_attempts = 1 /\ onfailure = "raise"
    /\ SeqIdle
    /\ ThrIdle
    /\ raisedExc = NoError /\ invoked = {} /\ failed = {}

NextFixture == CallBuildnext(dc0)

SpecFixture == InitFixture /\ [][NextFixture]_vars

\* the datasets buildnext yielded
Yielded == {result.out[k][1] : k \in 1..Len(result.out)}

\* C17 as stated: on the fixture graph with the raw files, da1 and db1 on disk
\* and da0 and db0 absent, buildnext(dc0) yields exactly da0 and db0, each
\* once.
C17_YieldsDa0AndDb0 ==
    (OnFixture /\ call = <<"buildnext", dc0>>)
        => (Yielded = {da0, db0} /\ Len(result.out) = 2)

\* C17 amended: in that state buildnext(dc0) yields da0 once, as MISSING, and
\* does not yield db0, whose parent da0 is missing; besides da0 it yields
\* da1 and db1, each once and as PARENTNEWER, exactly when that dataset is
\* older than one of its direct parents.
C17_YieldsDa0NotDb0 ==
    (OnFixture /\ call = <<"buildnext", dc0>>)
        => /\ result.raised = NoError
           /\ Yielded = {da0} \cup {d \in {da1, db1} : OlderThanAParent(d)}
           /\ Len(result.out) = Cardinality(Yielded)
           /\ \A k \in 1..Len(result.out) :
                 result.out[k][2] = IF result.out[k][1] = da0 THEN MISSING
                                    ELSE PARENTNEWER

\* da1 is up to date, so the walk goes on from da1 to db0 and defers it
C17_Witness ==
    /\ OnFixture /\ call = <<"buildnext", dc0>>
    /\ ~ OlderThanAParent(da1) /\ ~ OlderThanAParent(db1)
    /\ result.out = << <<da0, MISSING>> >>

----------------------------------------------------------------------------
(* Declaring a graph with dependson and querying it.  Every dataset starts *)
(* with no parents and no children (Dataset.__init__); dependson is the    *)
(* only code that changes _parents and _children.                          *)

MaxArgs == 2

\* the argument lists of dependson, as the set of datasets they name
ArgSets == {S \in SUBSET Nodes : S # {} /\ Cardinality(S) <= MaxArgs}

InitGraph ==
    /\ dsParents = [n \in Nodes |-> {}]
    /\ dsChildren = [n \in Nodes |-> {}]
    /\ mtime = [n \in Nodes |-> 0]
    /\ call = <<"none", NoNode>>
    /\ result = [raised |-> NoError, out |-> <<>>]
    /\ target = NoNode /\ max_attempts = 1 /\ onfailure = "raise"
    /\ SeqIdle
    /\ ThrIdle
    /\ raisedExc = NoError /\ invoked = {} /\ failed = {}

\* a dependson that forgets what was declared before
Dependson_replace(self, datasets) ==
    /\ EdgeCount([dsParents EXCEPT ![self] = datasets]) <= MaxEdges
    /\ dsParents' = [dsParents EXCEPT ![self] = datasets]
    /\ dsChildren' = [parent \in Nodes |->
                         IF parent \in datasets
                         THEN dsChildren[parent] \cup {self}
                         ELSE dsChildren[parent] \ {self}]
    /\ call' = <<"dependson", self>>
    /\ result' = [raised |-> NoError, out |-> SetToSeq(datasets)]
    /\ UNCHANGED <<mtime, argVars, seqVars, thrVars, raisedExc, histVars>>

\* a dependson that leaves the parents' _children alone
Dependson_parents_only(self, datasets) ==
    /\ EdgeCount([dsParents EXCEPT ![self] = @ \cup datasets]) <= MaxEdges
    /\ dsParents' = [dsParents EXCEPT ![self] = @ \cup datasets]
    /\ dsChildren' = dsChildren
    /\ call' = <<"dependson", self>>
    /\ result' = [raised |-> NoError, out |-> SetToSeq(datasets)]
    /\ UNCHANGED <<mtime, argVars, seqVars, thrVars, raisedExc, histVars>>

\* self.dependson(*datasets); result.out keeps the arguments of the call
Dependson(self, datasets) ==
    /\ EdgeCount([dsParents EXCEPT ![self] = @ \cup datasets]) <= MaxEdges
    /\ dsParents' = [dsParents EXCEPT ![self] = @ \cup datasets]
    /\ dsChildren' = [parent \in Nodes |->
                         IF parent \in datasets /\ self \notin dsChildren[parent]
                         THEN dsChildren[parent] \cup {self}
                         ELSE dsChildren[parent]]
    /\ call' = <<"dependson", self>>
    /\ result' = [raised |-> NoError, out |-> SetToSeq(datasets)]
    /\ UNCHANGED <<mtime, argVars, seqVars, thrVars, raisedExc, histVars>>

CallIsAcyclic(n) ==
    /\ call' = <<"is_acyclic", n>>
    /\ result' = [raised |-> NoError, out |-> <<is_acyclic(n)>>]
    /\ UNCHANGED <<graphVars, mtime, argVars, seqVars, thrVars, raisedExc, histVars>>

CallRoots(n) ==
    /\ call' = <<"roots", n>>
    /\ result' = [raised |-> NoError, out |-> roots(n)]
    /\ UNCHANGED <<graphVars, mtime, argVars, seqVars, thrVars, raisedExc, histVars>>

NextGraph ==
    \/ \E self \in Nodes, datasets \in ArgSets : Dependson(self, datasets)
    \/ \E n \in Nodes : CallIsAcyclic(n)
    \/ \E n \in Nodes : CallRoots(n)

SpecGraph == InitGraph /\ [][NextGraph]_vars

\* two distinct direct parents of n share the direct parent r
DiamondAbove(n, r) ==
    \E p \in dsParents[n], q \in dsParents[n] :
        p # q /\ r \in dsParents[p] /\ r \in dsParents[q]

\* what is_acyclic returned, against reachability computed apart from it
IsAcyclicAnswer ==
    call[1] = "is_acyclic" => result.out[1] = ~ CycleAbove(call[2])

\* C18: is_acyclic(n) returns False exactly when a cycle can be reached from
\* n over parent edges (a cycle through n and a self-edge included), and True
\* whenever the ancestors of n form a DAG; the call changes no edge.
C18_IsAcyclicExact ==
    [][/\ IsAcyclicAnswer'
       /\ call'[1] = "is_acyclic" => UNCHANGED graphVars]_vars

C18_Witness ==
    /\ call[1] = "is_acyclic"
    /\ result.out = <<TRUE>>
    /\ \E r \in Nodes : DiamondAbove(call[2], r)

\* the edges, one way and the other
EdgeSymmetry ==
    \A a \in Nodes, b \in Nodes : a \in dsParents[b] <=> b \in dsChildren[a]

\* parents(0) and children(0) list every direct relative once
ListedOnce ==
    \A n \in Nodes :
        /\ SeqRange(parents(n, 0)) = dsParents[n]
        /\ Len(parents(n, 0)) = Cardinality(dsParents[n])
        /\ SeqRange(children(n, 0)) = dsChildren[n]
        /\ Len(children(n, 0)) = Cardinality(dsChildren[n])

\* C19: after every dependson call, a repeated declaration included, a is a
\* direct parent of b exactly when b is a direct child of a, the edges just
\* declared are there, no edge declared earlier is gone and parents(0) and
\* children(0) list no dataset twice.
C19_EdgeSymmetry ==
    /\ [](EdgeSymmetry /\ ListedOnce)
    /\ [][/\ \A n \in Nodes : dsParents[n] \subseteq dsParents'[n]
                              /\ dsChildren[n] \subseteq dsChildren'[n]
          /\ call'[1] = "dependson"
                => \A a \in SeqRange(result'.out) :
                      /\ a \in dsParents'[call'[2]]
                      /\ call'[2] \in dsChildren'[a]]_vars

\* the last call declared one parent of a dataset that had another declared
\* before
C19_Witness ==
    /\ call[1] = "dependson"
    /\ Len(result.out) = 1
    /\ \E q \in dsParents[call[2]] :
          q # result.out[1] /\ call[2] \in dsChildren[q]
    /\ call[2] \in dsChildren[result.out[1]]

\* C20: on an acyclic graph roots(n) yields the ancestors of n that have no
\* parents, all of them and each once however many paths lead to it, and
\* nothing when n has no parents.
C20_RootsExact ==
    (call[1] = "roots" /\ ~ CycleAbove(call[2]))
        => /\ SeqRange(result.out) = {a \in Ancestors(call[2]) : dsParents[a] = {}}
           /\ \A i \in 1..Len(result.out), j \in 1..Len(result.out) :
                 result.out[i] = result.out[j] => i = j
           /\ dsParents[call[2]] = {} => result.out = <<>>

C20_Witness ==
    /\ call[1] = "roots"
    /\ \E r \in Nodes : DiamondAbove(call[2], r) /\ dsParents[r] = {}
    /\ Len(result.out) = 1

----------------------------------------------------------------------------
(* Walking a declared graph: a run declares edges with dependson and then  *)
(* makes one query (parents, children, roots, is_acyclic, buildnext or     *)
(* buildall) on what it declared.                                          *)

MaxDepth == 2

\* the depth arguments: -1 for the whole graph, 0 for the direct relatives
Depths == -1..MaxDepth

Declaring == call[1] \in {"none", "dependson"}

\* list(n.parents(depth)); call keeps the depth as its third element
CallParents(n, depth) ==
    /\ Declaring
    /\ call' = <<"parents", n, depth>>
    /\ result' = [raised |-> NoError, out |-> parents(n, depth)]
    /\ UNCHANGED <<graphVars, mtime, argVars, seqVars, thrVars, raisedExc, histVars>>

\* list(n.children(depth))
CallChildren(n, depth) ==
    /\ Declaring
    /\ call' = <<"children", n, depth>>
    /\ result' = [raised |-> NoError, out |-> children(n, depth)]
    /\ UNCHANGED <<graphVars, mtime, argVars, seqVars, thrVars, raisedExc, histVars>>

\* list(n.buildnext()) on the declared graph
WalkBuildnext(n) ==
    /\ Declaring
    /\ call' = <<"buildnext", n>>
    /\ result' = buildnext(n, <<>>)
    /\ UNCHANGED <<graphVars, mtime, argVars, seqVars, thrVars, raisedExc, histVars>>

\* list(buildall(n)) on the declared graph
WalkBuildall(n) ==
    /\ Declaring
    /\ call' = <<"buildall", n>>
    /\ result' = buildall(n)
    /\ UNCHANGED <<graphVars, mtime, argVars, seqVars, thrVars, raisedExc, histVars>>

NextWalk ==
    \/ Declaring /\ NextGraph
    \/ \E n \in Nodes, depth \in Depths : CallParents(n, depth)
    \/ \E n \in Nodes, depth \in Depths : CallChildren(n, depth)
    \/ \E n \in Nodes : WalkBuildnext(n)
    \/ \E n \in Nodes : WalkBuildall(n)

SpecWalk == InitGraph /\ [][NextWalk]_vars

\* the datasets at most k edges of rel away from those of S, S left out
RECURSIVE Within(_, _, _)
Within(rel, S, k) ==
    IF k = 0 THEN {}
    ELSE LET T == UNION {rel[n] : n \in S}
         IN T \cup Within(rel, T, k - 1)

\* the relation a walk follows, and whether a cycle of it can be reached
WalkRel == IF call[1] = "parents" THEN dsParents ELSE dsChildren

WalkCyclic ==
    \E m \in Reach(WalkRel, {call[2]}) : m \in Reach(WalkRel, WalkRel[m])

\* C21: on an acyclic graph parents(d), d >= 0, yields the ancestors within
\* d + 1 parent edges and parents(-1) all ancestors (parents(0) the direct
\* parents), each once whatever the number of paths to it; children(depth)
\* does the same over child edges.
C21_WalkExact ==
    (call[1] \in {"parents", "children"} /\ ~ WalkCyclic)
        => /\ SeqRange(result.out) =
                  IF call[3] = -1 THEN Reach(WalkRel, WalkRel[call[2]])
                  ELSE Within(WalkRel, {call[2]}, call[3] + 1)
           /\ \A i \in 1..Len(result.out), j \in 1..Len(result.out) :
                 result.out[i] = result.out[j] => i = j

\* parents(1) on a diamond: the grandparent is reached through both parents
C21_Witness ==
    /\ call[1] = "parents" /\ call[3] = 1 /\ ~ WalkCyclic
    /\ \E r \in Nodes : DiamondAbove(call[2], r) /\ r \notin dsParents[call[2]]
    /\ Len(result.out) = 3

\* C22: parents(-1), children(-1) and roots() finish on every graph, one
\* with a cycle included: the walk ends without running out of stack.
C22_UnboundedWalkFinishes ==
    (\/ call[1] \in {"parents", "children"} /\ call[3] = -1
     \/ call[1] = "roots")
        => ~ InSeq(RecErr, result.out)

\* C26: is_acyclic, parents, children, roots, buildnext and buildall, and
\* every step of buildmanager, the supervisor and the dispatch loop, leave
\* every dataset's parents and children as they were; dependson alone changes
\* them, and only adds.
C26_GraphReadOnly ==
    [][/\ call'[1] # "dependson" => UNCHANGED graphVars
       /\ \A n \in Nodes : /\ dsParents[n] \subseteq dsParents'[n]
                           /\ dsChildren[n] \subseteq dsChildren'[n]]_vars

\* buildall has planned over a graph that took several declarations
C26_Witness ==
    /\ call[1] = "buildall" /\ result.raised = NoError
    /\ \E p \in dsParents[call[2]] : dsParents[p] # {} /\ Cardinality(dsChildren[p]) > 1

----------------------------------------------------------------------------
(* buildnext with an ignore list, and the branch queue of buildnext *)

\* the ignore arguments: lists of distinct datasets
IgnoreLists == {SetToSeq(S) : S \in SUBSET Nodes}

InitIgnore ==
    /\ InitPlan
    /\ dsParents \in OrchGraphs
    /\ mtime \in NormalFileSystems

\* list(target.buildnext(ignore=ignore)); call keeps ignore as its third
\* element
CallBuildnextIgnore(n, ignore) ==
    /\ call[1] = "none"
    /\ call' = <<"buildnext", n, ignore>>
    /\ result' = buildnext(n, ignore)
    /\ UNCHANGED <<graphVars, mtime, argVars, seqVars, thrVars, raisedExc, histVars>>

NextIgnore == \E ignore \in IgnoreLists : CallBuildnextIgnore(NumNodes, ignore)

SpecIgnore == InitIgnore /\ [][NextIgnore]_vars

\* C28: one buildnext(target, ignore) call yields no dataset twice and no
\* dataset of ignore.
C28_NoRepeatNoIgnored ==
    (call[1] = "buildnext" /\ Len(call) = 3)
        => /\ \A i \in 1..Len(result.out), j \in 1..Len(result.out) :
                 result.out[i][1] = result.out[j][1] => i = j
           /\ \A k \in 1..Len(result.out) : ~ InSeq(result.out[k][1], call[3])

\* ignore names a dataset that buildnext yields when nothing is ignored, and
\* the call yielded another dataset
C28_Witness ==
    /\ call[1] = "buildnext" /\ Len(call) = 3
    /\ result.out # <<>>
    /\ \E d \in SeqRange(call[3]) :
          \E k \in 1..Len(buildnext(call[2], <<>>).out) :
              buildnext(call[2], <<>>).out[k][1] = d

\* the datasets buildnext walks as branches[0], one per turn of its
\* `while True` loop, in order
RECURSIVE bn_walked(_, _)
bn_walked(ancestors, branches) ==
    IF Len(branches) = 0 THEN <<>>
    ELSE Strict(walkbranch(branches[1], ancestors, branches),
                LAMBDA w : <<branches[1]>> \o bn_walked(ancestors, Tail(w.branches)))

Walked == bn_walked(parents(call[2], -1), roots(call[2]))

\* C29: in one buildnext call on an acyclic graph no dataset is put on the
\* branch queue twice: a dataset walked as a branch and taken off the queue
\* is not appended to it again.
C29_NoRequeue ==
    (CalledBuildnext /\ ~ CycleAbove(call[2]))
        => \A i \in 1..Len(Walked), j \in 1..Len(Walked) :
              Walked[i] = Walked[j] => i = j

\* C30: on an acyclic graph, if buildnext(target) with no ignore list yields
\* nothing, every ancestor of the target exists and none is older than any of
\* its direct parents.
C30_EmptyFrontierMeansDone ==
    (CalledBuildnext /\ ~ CycleAbove(call[2]) /\ result.out = <<>>)
        => \A d \in Ancestors(call[2]) :
              exists(d) /\ \A q \in dsParents[d] : exists(q) /\ ~ is_older_than(d, q)

----------------------------------------------------------------------------
(* More properties of the threaded orchestrators *)

\* C23: called with nprocs = N, the threaded orchestrator never has more
\* than N delegator invocations executing at the same time.
C23_AtMostNprocsRunning == Cardinality(Running) <= nprocs

\* C25: when the threaded call ends, by returning or by raising, every
\* future it submitted is done, and its worker has called the delegator (a
\* call made with max_attempts >= 1): none is running, queued or dropped.
C25_DrainedAtEnd ==
    ThrEnded =>
        \A i \in 1..Len(futs) :
            /\ futs[i].st = "done"
            /\ max_attempts >= 1 => futs[i].attempts >= 1

\* the call raised, and a step submitted after the failing one was built
C25_Witness ==
    /\ mainPc = "raised"
    /\ \E i \in 1..Len(futs), j \in 1..Len(futs) :
          i < j /\ futs[i].exc /\ futs[j].last = "ok" /\ futs[j].attempts >= 1

\* the datasets of the steps enqueued so far: those taken by the dispatch
\* loop, in the order taken, and those still on the queue
EnqueuedSoFar ==
    [i \in 1..Len(futs) |-> futs[i].dep]
        \o SelectSeq([k \in 1..Len(steps) |-> steps[k][1]], LAMBDA x : x # NoNode)

\* C27: in one threaded orchestration the supervisor enqueues each dataset
\* at most once, the target's final step included, and no two workers run
\* the delegator for the same dataset at the same time.
C27_EnqueuedOnce ==
    /\ \A i \in 1..Len(EnqueuedSoFar), j \in 1..Len(EnqueuedSoFar) :
          EnqueuedSoFar[i] = EnqueuedSoFar[j] => i = j
    /\ \A i \in Running, j \in Running : futs[i].dep = futs[j].dep => i = j

\* the supervisor is in its loop, buildnext still yields a dataset that a
\* worker is building, and another dataset's step has been enqueued too
C27_Witness ==
    /\ supPc = "loop" /\ Len(EnqueuedSoFar) >= 2
    /\ \E i \in Running :
          /\ futs[i].dep \in submitted
          /\ \E k \in 1..Len(buildnext(target, <<>>).out) :
                buildnext(target, <<>>).out[k][1] = futs[i].dep

(* Backpressure needs more steps in flight than 5 * nprocs.  The fan: one  *)
(* root on disk, FanWidth datasets that depend on it and are missing, and  *)
(* a target that depends on all of them.  The first sweep of the           *)
(* supervisor enqueues every dataset of the fan.  The delegator of the fan *)
(* raises every time it is called, and the call is made with              *)
(* onfailure="ignore".                                                     *)

FanWidth == 12
FanNprocs == 3

FanRoot == 1
FanTarget == FanWidth + 2
FanNodes == FanRoot..FanTarget
FanMiddle == FanNodes \ {FanRoot, FanTarget}

FanParents ==
    [n \in FanNodes |->
        IF n = FanRoot THEN {}
        ELSE IF n = FanTarget THEN FanMiddle
        ELSE {FanRoot}]

InitFan ==
    /\ dsParents = FanParents
    /\ dsChildren = [n \in FanNodes |-> {c \in FanNodes : n \in FanParents[c]}]
    /\ target = FanTarget
    /\ mtime = [n \in FanNodes |-> IF n = FanRoot THEN 1 ELSE 0]
    /\ max_attempts = 1
    /\ onfailure = "ignore"
    /\ call = <<"none", NoNode>>
    /\ result = [raised |-> NoError, out |-> <<>>]
    /\ raisedExc = NoError /\ invoked = {} /\ failed = {}
    /\ SeqIdle
    /\ nprocs \in 1..FanNprocs
    /\ impl \in Impls
    /\ supPc = "loop" /\ submitted = {} /\ steps = <<>> /\ signals = <<>>
    /\ mainPc = "loop" /\ futs = <<>> /\ pending = <<>>

NextFan ==
    \/ SupSweep
    \/ MainTurn
    \/ \E i \in FanNodes : WorkerStart(i)
    \/ \E i \in FanNodes : WorkerInvokeFail(i)

SpecFan == InitFan /\ [][NextFan]_vars

\* the futures submitted and not yet completed
InFlight == {i \in 1..Len(futs) : futs[i].st # "done"}

\* the futures the dispatch loop finds not done when it looks at pending
Tracked == {i \in SeqRange(pending) : futs[i].st # "done"}

\* C24: the dispatch loop takes no step from the steps queue while it counts
\* more futures in flight than 5 times the size of the worker pool, and so
\* no more than 5 * (pool size) + 1 submitted steps are ever incomplete.
C24_BackpressureBound ==
    /\ [](Cardinality(InFlight) <= BackpressureFactor * PoolSize + 1)
    /\ [][steps' # steps /\ mainPc = "loop" /\ steps # <<>> /\ steps' = Tail(steps)
            => Cardinality(Tracked) <= BackpressureFactor * PoolSize]_vars

----------------------------------------------------------------------------
(* The end of a threaded call *)

\* the supervisor thread has ended: it returned, or an exception ended it
SupEnded == supPc \in {"done", "dead"}

\* C31: when the threaded call has ended, by returning or by raising under
\* the raise policy, the supervisor has ended or has "quit" waiting for it on
\* the signals queue: no supervisor goes on sweeping after the call.
C31_SupervisorStopped ==
    (ThrEnded /\ max_attempts >= 1) => (SupEnded \/ InSeq("quit", signals))

\* C32: the sequential buildmanager calls the delegator on a dataset only
\* while every direct parent of the dataset exists on disk, on every acyclic
\* graph whose parentless datasets have their files, an earlier failed step
\* under print or ignore included.
C32_SeqBuildsAfterParents ==
    [][((SeqBuildOk \/ SeqBuildFail) /\ ~ CycleAbove(target) /\ RootsExist)
          => \A q \in dsParents[SeqItem[1]] : exists(q)]_vars

\* the dispatch loop of the main thread is left with the sentinel not taken
LoopStopsEarly == mainPc = "loop" /\ mainPc' = "wait" /\ steps' = steps

\* C33: in manager.execute, with max_attempts >= 1, the dispatch loop is left
\* before the sentinel only when some invocation of the delegator has failed;
\* a delegator that returns normally, whatever it returns, never stops it.
C33_StopsOnlyOnFailure ==
    [][(impl = "manager" /\ max_attempts >= 1 /\ LoopStopsEarly)
          => failed # {}]_vars

====
